---- MODULE Spec2Model ----
(***************************************************************************)
(* A model of the hugoreleaser archive/release pipeline:                   *)
(*   - internal/archives/targz : the tar+gzip archive writer               *)
(*   - cmd/archivecmd          : Archivist.Exec, the archive orchestrator  *)
(*   - cmd/releasecmd          : Releaser.Exec, the release publisher      *)
(* Each component has its own specification (SpecTargz, SpecArchive,       *)
(* SpecRelease); the variables of the other components stay idle.          *)
(***************************************************************************)
EXTENDS Integers, Sequences, FiniteSets, TLC

VARIABLES
    \* ---- targz.Archive and its caller ----
    pcT,          \* "idle" | "open" (constructed, Finalize not returned) | "finalized"
    finPos,       \* position in Finalize's close chain (1 = nothing closed yet)
    gwIn,         \* the tar stream a.tw has written into a.gw, a sequence of tokens
    twBroken,     \* a.tw holds a sticky error or an entry whose body is incomplete
    outData,      \* what the sink a.out has received from a.gw
    closeLog,     \* the Close calls made so far, in order: [layer, failed]
    finErr,       \* what Finalize returned: "pending", "nil", "tw", "gw", "out"
    addLog,       \* one record per AddAndClose call, in call order
    fileCloses    \* fileCloses[i]: number of Close calls on the handle of call i

varsT == <<pcT, finPos, gwIn, twBroken, outData, closeLog, finErr, addLog, fileCloses>>

VARIABLES
    \* ---- Archivist.Exec, its Runner and the disk ----
    pcA,          \* "idle" | "init" | "foreach" | "wait" | "returned"
    matched,      \* the (archive group, arch path) pairs ForEachArchiveArch visits, in order
    binaries,     \* the binary files present on disk
    nextIdx,      \* index in matched of the next pair ForEachArchiveArch hands over
    feErr,        \* the error ForEachArchiveArch returned
    task,         \* task[i]: the task submitted for matched[i]
    disk,         \* the archive files present on disk
    produced,     \* the tasks whose archives.Build wrote its archive
    firstErr,     \* the first non-nil error a task returned to the Runner
    waitCalled,   \* r.Wait() has been called and has returned
    retA          \* what Exec returned

varsA == <<pcA, matched, binaries, nextIdx, feErr, task, disk, produced, firstErr,
           waitCalled, retA>>

VARIABLES
    \* ---- Releaser.Exec, its clients and the release directories ----
    pcR,              \* "idle" | "init" | "dir" | "collect" | "checksum" | "client" |
                      \* "notes" | "release" | "submit" | "wait" | "returned"
    try,              \* b.core.Try, the dry-run flag
    commitish,        \* the -commitish flag
    releases,         \* releaseMatches, the release targets in configuration order
    cur,              \* index in releases of the target of the current loop iteration
    archiveFilenames, \* the current iteration's archiveFilenames
    relFiles,         \* the files in the release directories: [dir, name, lines]
    clientKind,       \* the current iteration's client: "none" | "real" | "fake"
    notesFilename,    \* info.Settings.ReleaseNotesSettings.Filename of the iteration
    upl,              \* upl[i]: the upload task of archiveFilenames[i]
    firstErrR,        \* the first non-nil error an upload task returned
    remote,           \* the calls made on release clients: [target, client, op, file]
    nRelease,         \* nRelease[t]: number of client.Release calls for target t
    iter,             \* iter[t]: whether the loop recreated target t's release directory,
                      \* and how its iteration ended: "pending" | "ok" | "leak" (left
                      \* while upload tasks of its Runner were still running) |
                      \* "failed" (left although an upload task returned an error)
    cancelled,        \* the contexts that have been cancelled
    retR              \* what Exec returned

varsR == <<pcR, try, commitish, releases, cur, archiveFilenames, relFiles, clientKind,
           notesFilename, upl, firstErrR, remote, nRelease, iter, cancelled, retR>>

\* The grouping of the changes for the release notes (release.go:218-240).
VARIABLES
    pcC,              \* "idle" | "grouping" | "grouped"
    Groups,           \* info.Settings.ReleaseNotesSettings.Groups: the ordered rules
    infos,            \* the changes CollectChanges returned
    nextInfo,         \* index of the next change GroupByFunc hands to the classifier
    returned,         \* returned[k]: what the classifier returned for change k
    infosGrouped      \* the groups built so far: a sequence of [title, changes]

varsC == <<pcC, Groups, infos, nextInfo, returned, infosGrouped>>

\* What each component leaves alone: the state of the others.
othersT == <<varsA, varsR, varsC>>
othersA == <<varsT, varsR, varsC>>
othersR == <<varsT, varsA, varsC>>
othersC == <<varsT, varsA, varsR>>

----------------------------------------------------------------------------
(***************************************************************************)
(* internal/archives/targz/targz.go                                        *)
(***************************************************************************)

\* Largest number of AddAndClose calls made on one archive.
MaxAdds == 2

\* Names given to entries inside the archive.
TargetPaths == {"bin/hugo", "README.md"}

\* Source files on disk: base name (what Stat reports) and content bytes.
SourceFiles ==
    { [name |-> "hugo",    content |-> <<7, 9>>],
      [name |-> "LICENSE", content |-> <<>>],
      [name |-> "README",  content |-> <<3>>] }

\* Where AddAndClose can fail: nowhere, or at one of its four fallible calls.
AddFailures == {"nil", "stat", "header", "writeHeader", "copy"}

\* Tokens of the tar stream.
HdrToken(name, size) == [t |-> "hdr", name |-> name, size |-> size, b |-> 0]
DatToken(b)          == [t |-> "dat", name |-> "", size |-> 0, b |-> b]
EndToken             == [t |-> "end", name |-> "", size |-> 0, b |-> 0]

\* f.Stat(): the file's own name and size.
Stat(f) == [name |-> f.name, size |-> Len(f.content)]

\* A header that keeps the name tar.FileInfoHeader took from the source file.
HeaderKeepsSourceName(targetPath, info) == HdrToken(info.name, info.size)

\* tar.FileInfoHeader(info, "") followed by header.Name = targetPath.
HeaderFor(targetPath, info) == HdrToken(targetPath, info.size)

\* The body tokens io.Copy writes for the first k bytes of a file.
BodyTokens(content, k) == [i \in 1..k |-> DatToken(content[i])]

\* A Close that runs only when the call is about to return nil.
ClosesOnSuccessOnly(n, err) == IF err = "nil" THEN n + 1 ELSE n

\* defer f.Close(): runs once, on whichever return is taken.
ClosesOnReturn(n, err) == n + 1

\* The tokens one AddAndClose call writes into the tar writer: nothing when it
\* fails before WriteHeader succeeds, the header and k body bytes otherwise.
AddWrites(targetPath, f, fail, k) ==
    IF fail \in {"stat", "header", "writeHeader"} THEN <<>>
    ELSE <<HeaderFor(targetPath, Stat(f))>> \o BodyTokens(f.content, k)

\* gzip: the compressed stream carries its payload and a length check.
Gzip(s) == [magic |-> "gzip", payload |-> s, isize |-> Len(s)]

\* The close chain of Finalize, in source order, swapped in its last two links.
FinalizeOrderSinkFirst == <<"tw", "out", "gw">>

\* The close chain of Finalize, in source order.
FinalizeOrder == <<"tw", "gw", "out">>

\* New(out): a.out = out, a.gw on top of it, a.tw on top of a.gw; all open.
New ==
    /\ pcT = "open"
    /\ finPos = 1
    /\ gwIn = <<>>
    /\ twBroken = FALSE
    /\ outData = [magic |-> "none", payload |-> <<>>, isize |-> 0]
    /\ closeLog = <<>>
    /\ finErr = "pending"
    /\ addLog = <<>>
    /\ fileCloses = <<>>

\* Archive.AddAndClose(targetPath, f), the whole call. fail is the call that
\* fails (or "nil"); k is the number of body bytes copied before a copy error.
AddAndClose(targetPath, f, fail, k) ==
    /\ pcT = "open"
    /\ finPos = 1
    /\ Len(addLog) < MaxAdds
    \* a broken tar writer rejects the next header
    /\ twBroken => fail \in {"stat", "header", "writeHeader"}
    /\ k \in 0..Len(f.content)
    /\ (fail # "copy") => k = Len(f.content)
    /\ gwIn' = gwIn \o AddWrites(targetPath, f, fail, k)
    /\ twBroken' = (twBroken \/ fail = "writeHeader"
                             \/ (fail = "copy" /\ k < Len(f.content)))
    /\ addLog' = Append(addLog, [targetPath |-> targetPath, file |-> f, err |-> fail])
    /\ fileCloses' = Append(fileCloses, ClosesOnReturn(0, fail))
    /\ UNCHANGED <<pcT, finPos, outData, closeLog, finErr, othersT>>

\* One link of Finalize's chain: close the layer, return its error if it
\* failed, go on to the next link otherwise; after the last link return nil.
FinalizeLink(layer, fail) ==
    /\ pcT = "open"
    /\ finPos <= Len(FinalizeOrder)
    /\ FinalizeOrder[finPos] = layer
    /\ closeLog' = Append(closeLog, [layer |-> layer, failed |-> fail])
    /\ IF fail
         THEN /\ pcT' = "finalized"
              /\ finErr' = layer
              /\ finPos' = finPos
         ELSE /\ finPos' = finPos + 1
              /\ pcT' = IF finPos = Len(FinalizeOrder) THEN "finalized" ELSE pcT
              /\ finErr' = IF finPos = Len(FinalizeOrder) THEN "nil" ELSE finErr
    /\ UNCHANGED <<twBroken, addLog, fileCloses, othersT>>

\* a.tw.Close(): flushes the trailer into a.gw; fails on a broken writer.
CloseTw ==
    \E fail \in BOOLEAN :
        /\ twBroken => fail
        /\ FinalizeLink("tw", fail)
        /\ gwIn' = IF fail THEN gwIn ELSE Append(gwIn, EndToken)
        /\ UNCHANGED outData

\* The layers closed so far.
Closed == {closeLog[i].layer : i \in 1..Len(closeLog)}

\* a.gw.Close(): compresses and flushes everything written so far into a.out;
\* the flush fails when the sink is already closed.
CloseGw ==
    \E fail \in BOOLEAN :
        /\ ("out" \in Closed) => fail
        /\ FinalizeLink("gw", fail)
        /\ outData' = IF fail THEN outData ELSE Gzip(gwIn)
        /\ UNCHANGED gwIn

\* a.out.Close().
CloseOut ==
    \E fail \in BOOLEAN :
        /\ FinalizeLink("out", fail)
        /\ UNCHANGED <<gwIn, outData>>

\* A caller's AddAndClose call with any arguments and any failure.
CallAddAndClose ==
    \E p \in TargetPaths, f \in SourceFiles, fail \in AddFailures :
        \E k \in 0..Len(f.content) : AddAndClose(p, f, fail, k)

NextTargz == CallAddAndClose \/ CloseTw \/ CloseGw \/ CloseOut

\* No archive is being written.
IdleTargz ==
    /\ pcT = "idle"
    /\ finPos = 1
    /\ gwIn = <<>>
    /\ twBroken = FALSE
    /\ outData = [magic |-> "none", payload |-> <<>>, isize |-> 0]
    /\ closeLog = <<>>
    /\ finErr = "pending"
    /\ addLog = <<>>
    /\ fileCloses = <<>>

----------------------------------------------------------------------------
(***************************************************************************)
(* cmd/archivecmd/archive.go                                               *)
(***************************************************************************)

\* Size of the shared worker pool (Runner.Run blocks while all slots are taken).
NumWorkers == 2

\* Path segments of the dist tree (filepath.Join is concatenation of segments).
DistDir == "dist"
Project == "hugoreleaser"
Tag == "v1.0.0"
DistRootArchives == "archives"
DistRootBuilds == "builds"
Binary == "hugo"

\* The configured archive groups: type extension of each.
ArchiveGroups == {"tgz", "zip"}
Extension(g) == IF g = "tgz" THEN ".tar.gz" ELSE ".zip"

\* The build architecture paths (archPath.Path), as <<goos, goarch>>.
ArchPaths == {<<"linux", "amd64">>, <<"darwin", "arm64">>}

\* Every (group, arch path) pair in the order ForEachArchiveArch visits them:
\* archive groups in configuration order, the arch paths of each in order.
AllPairs ==
    << [group |-> "tgz", path |-> <<"linux", "amd64">>],
       [group |-> "tgz", path |-> <<"darwin", "arm64">>],
       [group |-> "zip", path |-> <<"linux", "amd64">>],
       [group |-> "zip", path |-> <<"darwin", "arm64">>] >>

NilErr == [kind |-> "nil", path |-> <<>>]
IoErr(what) == [kind |-> what, path |-> <<>>]

\* archiveDistDir (lines 104-109).
ArchiveDistDir == <<DistDir, Project, Tag, DistRootArchives>>

\* outDir of a task (line 128): archiveDistDir joined with the arch path.
OutDir(m) == ArchiveDistDir \o m.path

\* The archive's file name: the name template over (project, tag, goos, goarch)
\* with the type's extension appended (lines 125-126, 138).
ArchiveName(m) == <<Project, Tag, m.path[1], m.path[2], Extension(m.group)>>

\* outFilename of a task (lines 133-138).
OutFilename(m) == Append(OutDir(m), ArchiveName(m))

\* A binary path taken under the archives root instead of the builds root.
BinaryFilenameUnderArchives(m) ==
    <<DistDir, Project, Tag, DistRootArchives>> \o m.path \o <<Binary>>

\* binaryFilename of a task (lines 142-148).
BinaryFilename(m) ==
    <<DistDir, Project, Tag, DistRootBuilds>> \o m.path \o <<Binary>>

\* Whether sequence d is a prefix of sequence f (f lies in directory d).
IsUnder(d, f) == Len(f) >= Len(d) /\ SubSeq(f, 1, Len(d)) = d

\* ioh.RemoveAllMkdirAll(dir): everything under dir is removed and dir is
\* created again, empty.
RemoveAllMkdirAll(files, dir) == {f \in files : ~IsUnder(dir, f)}

\* archives.Build, when it succeeds: exactly one file, at the request's output
\* filename.
ArchivesBuild(files, outFilename) == files \cup {outFilename}

\* The tasks submitted to the Runner so far, and those still running.
Submitted == {i \in 1..Len(matched) : task[i].pc # "none"}
Running == {i \in Submitted : task[i].pc # "done"}

NoTask == [pc |-> "none", err |-> NilErr, dirReset |-> FALSE, buildCalled |-> FALSE]

\* The state before Exec is called: any configuration, any set of binaries.
StartArchive ==
    /\ pcA = "init"
    /\ \E chosen \in SUBSET {AllPairs[i] : i \in 1..Len(AllPairs)} :
          matched = SelectSeq(AllPairs, LAMBDA m : m \in chosen)
    /\ binaries \in SUBSET {<<"dist", "hugoreleaser", "v1.0.0", "builds">> \o p \o <<"hugo">>
                              : p \in ArchPaths}
    /\ nextIdx = 1
    /\ feErr = NilErr
    /\ task = [i \in 1..Len(matched) |-> NoTask]
    /\ disk = {}
    /\ produced = {}
    /\ firstErr = NilErr
    /\ waitCalled = FALSE
    /\ retA = [kind |-> "pending", path |-> <<>>]

\* Exec is not running.
IdleArchive ==
    /\ pcA = "idle"
    /\ matched = <<>>
    /\ binaries = {}
    /\ nextIdx = 1
    /\ feErr = NilErr
    /\ task = <<>>
    /\ disk = {}
    /\ produced = {}
    /\ firstErr = NilErr
    /\ waitCalled = FALSE
    /\ retA = [kind |-> "pending", path |-> <<>>]

\* Lines 98-102: b.Init() fails and Exec returns its error, or the Runner is
\* started.
ExecInit ==
    /\ pcA = "init"
    /\ \E fail \in BOOLEAN :
          IF fail THEN /\ pcA' = "returned"
                       /\ retA' = IoErr("init")
                  ELSE /\ pcA' = "foreach"
                       /\ retA' = retA
    /\ UNCHANGED <<matched, binaries, nextIdx, feErr, task, disk, produced,
                   firstErr, waitCalled, othersA>>

\* Lines 111-115, 191: the callback for the next pair submits its task with
\* r.Run, which takes a pool slot, and returns nil.
ForEachSubmit ==
    /\ pcA = "foreach"
    /\ nextIdx <= Len(matched)
    /\ Cardinality(Running) < NumWorkers
    /\ task' = [task EXCEPT ![nextIdx].pc = "dir"]
    /\ nextIdx' = nextIdx + 1
    /\ UNCHANGED <<pcA, matched, binaries, feErr, disk, produced, firstErr,
                   waitCalled, retA, othersA>>

\* Line 111: ForEachArchiveArch returns, with nil after the last pair or with
\* an error of its own at any point.
ForEachReturn ==
    /\ pcA = "foreach"
    /\ \E fail \in BOOLEAN :
          /\ ~fail => nextIdx > Len(matched)
          /\ feErr' = IF fail THEN IoErr("foreach") ELSE NilErr
    /\ pcA' = "wait"
    /\ UNCHANGED <<matched, binaries, nextIdx, task, disk, produced, firstErr,
                   waitCalled, retA, othersA>>

\* A task returns err to the Runner, which keeps the first non-nil one.
TaskReturns(i, err) ==
    /\ task' = [task EXCEPT ![i].pc = "done", ![i].err = err]
    /\ firstErr' = IF firstErr = NilErr THEN err ELSE firstErr

\* Lines 128-131: ioh.RemoveAllMkdirAll(outDir) removes everything under
\* outDir and recreates it.
TaskRemoveAllMkdirAll(i) ==
    /\ task[i].pc = "dir"
    /\ \E fail \in BOOLEAN :
          IF fail
            THEN /\ TaskReturns(i, IoErr("io"))
                 /\ disk' = disk
            ELSE /\ disk' = RemoveAllMkdirAll(disk, OutDir(matched[i]))
                 /\ task' = [task EXCEPT ![i].pc = "stat", ![i].dirReset = TRUE]
                 /\ firstErr' = firstErr
    /\ UNCHANGED <<pcA, matched, binaries, nextIdx, feErr, produced, waitCalled, retA,
                   othersA>>

\* Lines 142-157: os.Stat(binaryFilename), "binary file not found" naming it
\* when it is absent; then os.MkdirAll of the output directory.
TaskStatBinary(i) ==
    /\ task[i].pc = "stat"
    /\ IF BinaryFilename(matched[i]) \notin binaries
         THEN TaskReturns(i, [kind |-> "binary file not found",
                              path |-> BinaryFilename(matched[i])])
         ELSE \E fail \in BOOLEAN :
                IF fail THEN TaskReturns(i, IoErr("io"))
                        ELSE /\ task' = [task EXCEPT ![i].pc = "build"]
                             /\ firstErr' = firstErr
    /\ UNCHANGED <<pcA, matched, binaries, nextIdx, feErr, disk, produced,
                   waitCalled, retA, othersA>>

\* Lines 159-188: the request is assembled and archives.Build writes the
\* archive at outFilename, or fails.
TaskBuild(i) ==
    /\ task[i].pc = "build"
    /\ \E fail \in BOOLEAN :
          /\ task' = [task EXCEPT ![i].pc = "done", ![i].buildCalled = TRUE,
                                   ![i].err = IF fail THEN IoErr("io") ELSE NilErr]
          /\ firstErr' = IF firstErr = NilErr /\ fail THEN IoErr("io") ELSE firstErr
          /\ disk' = IF fail THEN disk ELSE ArchivesBuild(disk, OutFilename(matched[i]))
          /\ produced' = IF fail THEN produced ELSE produced \cup {i}
    /\ UNCHANGED <<pcA, matched, binaries, nextIdx, feErr, waitCalled, retA, othersA>>

\* A Wait that is skipped when ForEachArchiveArch returned an error.
WaitSkippedOnForEachError == feErr # NilErr \/ Running = {}

\* Line 194: r.Wait() returns once every submitted task has returned.
WaitReady == Running = {}

\* Lines 196-200: err from ForEachArchiveArch if non-nil, errWait otherwise.
ExecReturn(err, errWait) == IF err # NilErr THEN err ELSE errWait

\* Lines 194-200: errWait := r.Wait(), then the return.
WaitAndReturn ==
    /\ pcA = "wait"
    /\ WaitReady
    /\ waitCalled' = TRUE
    /\ retA' = ExecReturn(feErr, firstErr)
    /\ pcA' = "returned"
    /\ UNCHANGED <<matched, binaries, nextIdx, feErr, task, disk, produced, firstErr,
                   othersA>>

NextArchive ==
    \/ ExecInit
    \/ ForEachSubmit
    \/ ForEachReturn
    \/ \E i \in 1..Len(matched) : TaskRemoveAllMkdirAll(i)
    \/ \E i \in 1..Len(matched) : TaskStatBinary(i)
    \/ \E i \in 1..Len(matched) : TaskBuild(i)
    \/ WaitAndReturn

----------------------------------------------------------------------------
(***************************************************************************)
(* cmd/releasecmd/release.go                                               *)
(***************************************************************************)

\* Largest number of attempts UploadAssetsFileWithRetries makes for one file.
MaxAttempts == 2

DistRootReleases == "releases"

\* The paths of the configured release targets, in configuration order.
ReleasePaths == <<"rel/a", "rel/b">>

\* The path patterns a release target may carry (release.PathsCompiled).
Patterns == {"**", "linux/**", "windows/**"}

\* filter.Match(archPath.Path).
Match(pattern, path) ==
    CASE pattern = "**"         -> TRUE
      [] pattern = "linux/**"   -> path[1] = "linux"
      [] pattern = "windows/**" -> path[1] = "windows"

\* b.core.Config.Archives with each archive's ArchsCompiled, flattened in loop
\* order (lines 133-134): one archive group over both arch paths.
ConfigArchPaths == SubSeq(AllPairs, 1, 2)

\* releaseDir of a target (lines 108-114).
ReleaseDir(r) == <<DistDir, Project, Tag, DistRootReleases, r.path>>

\* Lines 130-147: the archive file of every arch path the target's filter
\* matches, in configuration order.
CollectArchiveFilenames(r) ==
    LET hit == SelectSeq(ConfigArchPaths, LAMBDA m : Match(r.paths, m.path))
    IN  [i \in 1..Len(hit) |-> OutFilename(hit[i])]

\* A check for "no files" that never reports it.
NoFilesFoundNever(fs) == FALSE

\* Line 149: len(archiveFilenames) == 0.
NoFilesFound(fs) == Len(fs) = 0

\* A dry-run flag that is never consulted.
DryRunIgnored == FALSE

\* b.core.Try (lines 153 and 194).
DryRun == try

\* releases.CreateChecksumLines: one "<digest>  <filename>" line per file, in
\* the order of the files.
CreateChecksumLines(fs) == [i \in 1..Len(fs) |-> <<"sha256", fs[i]>>]

\* checksumFilename (line 162) and releaseNotesFilename (line 254).
ChecksumFilename(r) == Append(ReleaseDir(r), "checksum.txt")
ReleaseNotesFilename(r) == Append(ReleaseDir(r), "release-notes.md")

\* os.Create followed by writes: the file at path f now holds these lines.
WriteFile(files, f, lines) ==
    {x \in files : x.name # f} \cup {[name |-> f, lines |-> lines]}

\* os.RemoveAll(dir).
RemoveAll(files, dir) == {x \in files : ~IsUnder(dir, x.name)}

NoUpload ==
    [pc |-> "none", attempts |-> 0, opens |-> 0, transient |-> 0, handles |-> <<>>,
     last |-> "none", released |-> FALSE, err |-> NilErr]

\* The context passed to Exec, and the context Workforce.Start derives for the
\* uploads of target t (line 284).
ExecCtx == [from |-> "exec", n |-> 0]
PoolCtx(t) == [from |-> "pool", n |-> t]

\* A ctx that line 284 assigns to Exec's own variable instead of declaring a
\* new one: from the second iteration on it is the previous target's pool context.
LoopCtxAssigned(t) == IF t = 1 THEN ExecCtx ELSE PoolCtx(t - 1)

\* The ctx the body of iteration t sees before line 284: "r, ctx :=" declares a
\* new ctx in the body's scope, so every iteration starts with Exec's parameter.
LoopCtx(t) == ExecCtx

\* A call made on a client or on the pool, with the context it is given and
\* whether that context is still live at the call.
Call(t, client, op, file, ctx) ==
    [target |-> t, client |-> client, op |-> op, file |-> file, ctx |-> ctx,
     live |-> ctx \notin cancelled]

\* The upload tasks submitted so far that have not returned.
Uploading == {i \in 1..Len(upl) : upl[i].pc = "running"}

\* The state before Exec is called: any flags, up to two release targets with
\* any settings, release directories that are empty or hold an earlier run's
\* checksum file.
StartRelease ==
    /\ pcR = "init"
    /\ try \in BOOLEAN
    /\ commitish \in {"", "main"}
    /\ \E n \in 0..Len(ReleasePaths) :
         \E cfg \in [1..n -> [paths : Patterns, generate : BOOLEAN,
                               notesFilename : {"", "NOTES.md"}]] :
            releases = [i \in 1..n |->
                          [path |-> ReleasePaths[i], paths |-> cfg[i].paths,
                           generate |-> cfg[i].generate,
                           notesFilename |-> cfg[i].notesFilename]]
    /\ cur = 1
    /\ archiveFilenames = <<>>
    /\ \E stale \in BOOLEAN :
         relFiles = IF stale
                      THEN {[name |-> ChecksumFilename(releases[i]), lines |-> <<"old">>]
                              : i \in 1..Len(releases)}
                      ELSE {}
    /\ clientKind = "none"
    /\ notesFilename = ""
    /\ upl = <<>>
    /\ firstErrR = NilErr
    /\ remote = {}
    /\ nRelease = [i \in 1..Len(releases) |-> 0]
    /\ iter = [i \in 1..Len(releases) |-> [dir |-> FALSE, end |-> "pending"]]
    /\ cancelled = {}
    /\ retR = [kind |-> "pending", path |-> <<>>]

\* Exec is not running.
IdleRelease ==
    /\ pcR = "idle"
    /\ try = FALSE
    /\ commitish = ""
    /\ releases = <<>>
    /\ cur = 1
    /\ archiveFilenames = <<>>
    /\ relFiles = {}
    /\ clientKind = "none"
    /\ notesFilename = ""
    /\ upl = <<>>
    /\ firstErrR = NilErr
    /\ remote = {}
    /\ nRelease = <<>>
    /\ iter = <<>>
    /\ cancelled = {}
    /\ retR = [kind |-> "pending", path |-> <<>>]

\* Exec returns err.
ReturnR(err) ==
    /\ pcR' = "returned"
    /\ retR' = err

\* The end of one loop iteration (continue, or the end of the body): the next
\* target, or "return nil" after the last one (line 307). The iteration's
\* locals go out of scope.
NextTarget ==
    /\ cur' = cur + 1
    /\ archiveFilenames' = <<>>
    /\ clientKind' = "none"
    /\ notesFilename' = ""
    /\ upl' = <<>>
    /\ iter' = [iter EXCEPT ![cur].end =
                   IF \E i \in 1..Len(upl) : upl[i].pc # "done" THEN "leak"
                   ELSE IF \E i \in 1..Len(upl) : upl[i].err # NilErr THEN "failed"
                   ELSE "ok"]
    /\ IF cur >= Len(releases)
         THEN ReturnR(NilErr)
         ELSE pcR' = "dir" /\ retR' = retR

\* Lines 92-98: Init (commitish flag, matching releases, their validation) and
\* the check that releases are configured.
ReleaserInit ==
    /\ pcR = "init"
    /\ IF commitish = ""
         THEN ReturnR(IoErr("flag -commitish is required"))
         ELSE IF Len(releases) = 0
         THEN ReturnR(IoErr("no releases found"))
         ELSE \E valid \in BOOLEAN :
                IF valid THEN pcR' = "dir" /\ retR' = retR
                         ELSE ReturnR(IoErr("validate"))
    /\ UNCHANGED <<try, commitish, releases, cur, archiveFilenames, relFiles,
                   clientKind, notesFilename, upl, firstErrR, remote, nRelease,
                   iter, cancelled, othersR>>

\* Lines 108-127: the release directory is removed if it exists and created.
\* A Stat error other than "not exist" skips both.
PrepareReleaseDir ==
    /\ pcR = "dir"
    /\ \E outcome \in {"ok", "statFails", "removeFails", "mkdirFails"} :
         LET dir == ReleaseDir(releases[cur]) IN
         CASE outcome = "ok" ->
                /\ relFiles' = RemoveAll(relFiles, dir)
                /\ iter' = [iter EXCEPT ![cur].dir = TRUE]
                /\ pcR' = "collect" /\ retR' = retR
           [] outcome = "statFails" ->
                /\ relFiles' = relFiles
                /\ iter' = iter
                /\ pcR' = "collect" /\ retR' = retR
           [] outcome = "removeFails" ->
                /\ relFiles' = relFiles
                /\ iter' = iter
                /\ ReturnR([kind |-> "failed to remove release directory", path |-> dir])
           [] outcome = "mkdirFails" ->
                /\ relFiles' = RemoveAll(relFiles, dir)
                /\ iter' = [iter EXCEPT ![cur].dir = TRUE]
                /\ ReturnR([kind |-> "failed to create release directory", path |-> dir])
    /\ UNCHANGED <<try, commitish, releases, cur, archiveFilenames, clientKind,
                   notesFilename, upl, firstErrR, remote, nRelease, cancelled, othersR>>

\* Lines 129-155: the archive files of the target are collected; Exec returns
\* an error when there are none; in a dry run the iteration ends here.
CollectFiles ==
    /\ pcR = "collect"
    /\ LET fs == CollectArchiveFilenames(releases[cur]) IN
         IF NoFilesFound(fs)
           THEN /\ ReturnR([kind |-> "no files found for release",
                            path |-> <<releases[cur].path>>])
                /\ UNCHANGED <<cur, archiveFilenames, clientKind, notesFilename, upl,
                               iter>>
           ELSE IF DryRun
           THEN NextTarget
           ELSE /\ archiveFilenames' = fs
                /\ pcR' = "checksum" /\ retR' = retR
                /\ UNCHANGED <<cur, clientKind, notesFilename, upl, iter>>
    /\ UNCHANGED <<try, commitish, releases, relFiles, firstErrR, remote, nRelease,
                   cancelled, othersR>>

\* The files to upload without the checksum file.
ChecksumNotUploaded(files, f) == files

\* Line 186: the checksum file joins the files to upload.
AppendChecksum(files, f) == Append(files, f)

\* Lines 157-188: the checksum lines are computed and written to checksum.txt,
\* which joins the files to upload. A write can fail after k lines.
WriteChecksums ==
    /\ pcR = "checksum"
    /\ \E outcome \in {"ok", "digestFails", "createFails", "writeFails"} :
       \E k \in 0..Len(archiveFilenames) :
         LET f     == ChecksumFilename(releases[cur])
             lines == CreateChecksumLines(archiveFilenames)
         IN
         CASE outcome = "ok" ->
                /\ k = Len(lines)
                /\ relFiles' = WriteFile(relFiles, f, lines)
                /\ archiveFilenames' = AppendChecksum(archiveFilenames, f)
                /\ pcR' = "client" /\ retR' = retR
           [] outcome = "digestFails" ->
                /\ k = 0
                /\ ReturnR(IoErr("checksum"))
                /\ UNCHANGED <<relFiles, archiveFilenames>>
           [] outcome = "createFails" ->
                /\ k = 0
                /\ ReturnR([kind |-> "failed to create checksum file", path |-> f])
                /\ UNCHANGED <<relFiles, archiveFilenames>>
           [] outcome = "writeFails" ->
                /\ k < Len(lines)
                /\ relFiles' = WriteFile(relFiles, f, SubSeq(lines, 1, k))
                /\ ReturnR([kind |-> "failed to create checksum file", path |-> f])
                /\ UNCHANGED archiveFilenames
    /\ UNCHANGED <<try, commitish, releases, cur, clientKind, notesFilename, upl,
                   firstErrR, remote, nRelease, iter, cancelled, othersR>>

\* Lines 190-202: releases.NewClient builds the provider's client; a dry run
\* replaces it by the FakeClient; info takes the target's settings.
MakeClient ==
    /\ pcR = "client"
    /\ remote' = remote \cup {Call(cur, "real", "NewClient", <<>>, LoopCtx(cur))}
    /\ \E fail \in BOOLEAN :
         IF fail
           THEN /\ ReturnR(IoErr("failed to create release client"))
                /\ UNCHANGED <<clientKind, notesFilename>>
           ELSE /\ clientKind' = IF DryRun THEN "fake" ELSE "real"
                /\ notesFilename' = releases[cur].notesFilename
                /\ pcR' = "notes" /\ retR' = retR
    /\ UNCHANGED <<try, commitish, releases, cur, archiveFilenames, relFiles, upl,
                   firstErrR, nRelease, iter, cancelled, othersR>>

\* A generation of notes that does not look at the configured filename.
NotesConflictUnchecked(filename) == FALSE

\* Line 207: with Generate set, a configured notes filename is a conflict.
NotesConflict(filename) == filename # ""

\* Lines 204-276: when notes are to be generated, both settings being set is an
\* error; otherwise the changes are collected (resolving the authors' names
\* through the client, lines 211-216), grouped and rendered into
\* release-notes.md, whose name info then carries.
WriteReleaseNotes ==
    /\ pcR = "notes"
    /\ IF ~releases[cur].generate
         THEN /\ pcR' = "release" /\ retR' = retR
              /\ UNCHANGED <<relFiles, notesFilename, remote>>
         ELSE IF NotesConflict(notesFilename)
         THEN /\ ReturnR(IoErr("both GenerateReleaseNotes and ReleaseNotesFilename are set"))
              /\ UNCHANGED <<relFiles, notesFilename, remote>>
         ELSE \E outcome \in {"ok", "collectFails", "writeFails"} :
                LET f == ReleaseNotesFilename(releases[cur]) IN
                /\ remote' = remote \cup
                       {Call(cur, clientKind, "ResolveUsername", <<>>, LoopCtx(cur))}
                /\ CASE outcome = "ok" ->
                       /\ relFiles' = WriteFile(relFiles, f, <<"notes">>)
                       /\ notesFilename' = "release-notes.md"
                       /\ pcR' = "release" /\ retR' = retR
                  [] outcome = "collectFails" ->
                       /\ ReturnR(IoErr("changelog"))
                       /\ UNCHANGED <<relFiles, notesFilename>>
                  [] outcome = "writeFails" ->
                       /\ relFiles' = WriteFile(relFiles, f, <<>>)
                       /\ notesFilename' = "release-notes.md"
                       /\ ReturnR([kind |-> "failed to create release notes file",
                                   path |-> f])
    /\ UNCHANGED <<try, commitish, releases, cur, archiveFilenames, clientKind, upl,
                   firstErrR, nRelease, iter, cancelled, othersR>>

\* An error of client.Release that Exec does not look at.
ReleaseErrorIgnored(fail) == FALSE

\* Lines 281-283: "if err != nil" after client.Release.
ReleaseFailed(fail) == fail

\* Lines 280-284: client.Release creates the release; on success the Runner
\* for the uploads is started, its context derived from the loop's.
CreateRelease ==
    /\ pcR = "release"
    /\ nRelease' = [nRelease EXCEPT ![cur] = @ + 1]
    /\ \E fail \in BOOLEAN :
         /\ (clientKind = "fake") => ~fail
         /\ IF ReleaseFailed(fail)
              THEN /\ remote' = remote \cup
                         {Call(cur, clientKind, "Release", <<>>, LoopCtx(cur))}
                   /\ ReturnR(IoErr("failed to create release"))
                   /\ UNCHANGED <<upl, firstErrR, cancelled>>
              ELSE /\ remote' = remote \cup
                         {Call(cur, clientKind, "Release", <<>>, LoopCtx(cur)),
                          Call(cur, "none", "Start", <<>>, LoopCtx(cur))}
                   /\ cancelled' = IF LoopCtx(cur) \in cancelled
                                     THEN cancelled \cup {PoolCtx(cur)}
                                     ELSE cancelled
                   /\ upl' = [i \in 1..Len(archiveFilenames) |->
                                [NoUpload EXCEPT !.released = ~fail]]
                   /\ firstErrR' = NilErr
                   /\ pcR' = "submit" /\ retR' = retR
    /\ UNCHANGED <<try, commitish, releases, cur, archiveFilenames, relFiles,
                   clientKind, notesFilename, iter, othersR>>

\* Lines 286-299: r.Run submits the upload task of the next file, taking a
\* pool slot; after the last file Exec goes on to r.Wait().
SubmitUpload ==
    /\ pcR = "submit"
    /\ Cardinality(Uploading) < NumWorkers
    /\ LET i == CHOOSE j \in 1..Len(upl) :
                   upl[j].pc = "none" /\ \A h \in 1..(j - 1) : upl[h].pc # "none"
       IN  /\ upl' = [upl EXCEPT ![i].pc = "running"]
           /\ pcR' = IF i = Len(upl) THEN "wait" ELSE pcR
    /\ UNCHANGED <<try, commitish, releases, cur, archiveFilenames, relFiles,
                   clientKind, notesFilename, firstErrR, remote, nRelease, iter,
                   cancelled, retR, othersR>>

\* releases.UploadAssetsFileWithRetries, per attempt: what the task does after
\* an attempt with this outcome, having made n attempts before it.
AfterAttempt(n, outcome) ==
    CASE outcome = "ok"        -> [pc |-> "done", err |-> NilErr]
      [] outcome = "permanent" -> [pc |-> "done", err |-> IoErr("upload")]
      [] outcome = "transient" ->
           IF n + 1 >= MaxAttempts
             THEN [pc |-> "done", err |-> IoErr("upload")]
             ELSE [pc |-> "running", err |-> NilErr]

\* A file opened once for the task: the attempts after the first get the handle
\* where the attempt before them left it.
OpenFileOnce(files, i, n) ==
    [file |-> files[i], id |-> 1, offset |-> IF n = 0 THEN 0 ELSE 1]

\* Lines 287-292: archiveFilename is the iteration's own copy, and openFile
\* calls os.Open on it: each call (n calls were made before) gives a new
\* handle at the start of the file.
OpenFile(files, i, n) == [file |-> files[i], id |-> n + 1, offset |-> 0]

\* Lines 288-298: one attempt of the upload task of file i: openFile opens the
\* file afresh and the client uploads it under the Runner's context. An upload
\* under a cancelled context does not succeed; the first task error cancels
\* the Runner's context.
UploadAttempt(i) ==
    /\ upl[i].pc = "running"
    /\ LET h == OpenFile(archiveFilenames, i, upl[i].opens) IN
       /\ remote' = remote \cup
              {Call(cur, clientKind, "UploadAsset", h.file, PoolCtx(cur))}
       /\ \E outcome \in {"ok", "transient", "permanent"} :
            LET after == AfterAttempt(upl[i].attempts, outcome) IN
            /\ (clientKind = "fake") => outcome = "ok"
            /\ (PoolCtx(cur) \in cancelled) => outcome # "ok"
            /\ upl' = [upl EXCEPT ![i] =
                         [pc        |-> after.pc,
                          attempts  |-> @.attempts + 1,
                          opens     |-> @.opens + 1,
                          transient |-> @.transient + (IF outcome = "transient" THEN 1 ELSE 0),
                          handles   |-> Append(@.handles, h),
                          last      |-> outcome,
                          released  |-> @.released,
                          err       |-> after.err]]
            /\ firstErrR' = IF firstErrR = NilErr THEN after.err ELSE firstErrR
            /\ cancelled' = IF after.err # NilErr
                              THEN cancelled \cup {PoolCtx(cur)}
                              ELSE cancelled
    /\ UNCHANGED <<pcR, try, commitish, releases, cur, archiveFilenames, relFiles,
                   clientKind, notesFilename, nRelease, iter, retR, othersR>>

\* A Wait that returns at once.
UploadsNotAwaited == TRUE

\* Line 301: r.Wait() returns once every upload task has returned.
UploadsFinished == \A i \in 1..Len(upl) : upl[i].pc = "done"

\* Lines 301-305: r.Wait() returns once every upload task has returned, which
\* cancels the Runner's context; an error ends Exec, otherwise the loop goes on.
WaitUploads ==
    /\ pcR = "wait"
    /\ UploadsFinished
    /\ cancelled' = cancelled \cup {PoolCtx(cur)}
    /\ IF firstErrR # NilErr
         THEN /\ ReturnR(IoErr("failed to upload files"))
              /\ UNCHANGED <<cur, archiveFilenames, clientKind, notesFilename, upl,
                             iter>>
         ELSE NextTarget
    /\ UNCHANGED <<try, commitish, releases, relFiles, firstErrR, remote, nRelease,
                   othersR>>

NextRelease ==
    \/ ReleaserInit
    \/ PrepareReleaseDir
    \/ CollectFiles
    \/ WriteChecksums
    \/ MakeClient
    \/ WriteReleaseNotes
    \/ CreateRelease
    \/ SubmitUpload
    \/ \E i \in 1..Len(upl) : UploadAttempt(i)
    \/ WaitUploads


----------------------------------------------------------------------------
(***************************************************************************)
(* cmd/releasecmd/release.go, lines 218-240: grouping the changes.         *)
(***************************************************************************)

\* Largest number of rules in ReleaseNotesSettings.Groups.
MaxRules == 3

\* The regular expressions of the rules. A commit subject is a sequence of
\* words; each expression is anchored at the start of the subject and written
\* as the words it requires there ("^fix", "^feat"); the empty one matches
\* every subject.
Regexps == {<<>>, <<"fix">>, <<"feat">>}

\* g.RegexpCompiled.Match(change.Subject)
RegexpMatch(re, subject) ==
    /\ Len(re) <= Len(subject)
    /\ \A i \in 1..Len(re) : subject[i] = re[i]

\* The rules a configuration can hold.
RuleKinds ==
    [re : Regexps, title : {"Fixes", "Features"}, ignore : {FALSE}]
        \cup [re : Regexps, title : {"Fixes"}, ignore : {TRUE}]

\* The rule lists of at most n rules.
RECURSIVE RuleLists(_)
RuleLists(n) ==
    IF n = 0 THEN {<<>>}
    ELSE LET shorter == RuleLists(n - 1) IN
         shorter \cup {Append(l, r) : l \in {x \in shorter : Len(x) = n - 1},
                                      r \in RuleKinds}

\* The histories CollectChanges returns.
Histories ==
    { <<[id |-> 1, subject |-> <<"fix", "ui">>],
        [id |-> 2, subject |-> <<"feat", "api">>],
        [id |-> 3, subject |-> <<"chore">>]>>,
      <<[id |-> 1, subject |-> <<"chore">>],
        [id |-> 2, subject |-> <<"fix", "ui">>],
        [id |-> 3, subject |-> <<"fix", "ui">>]>> }

\* The indices of the rules of gs whose expression matches the subject.
Matching(gs, subject) == {i \in 1..Len(gs) : RegexpMatch(gs[i].re, subject)}

\* A classifier that lets the last matching rule decide.
ClassifierLastMatch(gs, subject) ==
    LET M == Matching(gs, subject) IN
    IF M = {} THEN [title |-> "", ok |-> FALSE]
    ELSE LET i == CHOOSE x \in M : \A y \in M : y <= x IN
         IF gs[i].ignore THEN [title |-> "", ok |-> FALSE]
                         ELSE [title |-> gs[i].title, ok |-> TRUE]

\* A classifier that passes over the rules flagged ignore: the first matching
\* rule that is not flagged decides.
ClassifierSkipsIgnored(gs, subject) ==
    LET M == {i \in Matching(gs, subject) : ~gs[i].ignore} IN
    IF M = {} THEN [title |-> "", ok |-> FALSE]
    ELSE LET i == CHOOSE x \in M : \A y \in M : x <= y IN
         [title |-> gs[i].title, ok |-> TRUE]

\* Lines 231-239: the loop over the rules from rule i on: the first rule whose
\* expression matches returns, ("", false) when it is flagged ignore and
\* (g.Title, true) otherwise; ("", false) after the last rule.
RECURSIVE ClassifyFrom(_, _, _)
ClassifyFrom(gs, i, subject) ==
    IF i > Len(gs) THEN [title |-> "", ok |-> FALSE]
    ELSE IF RegexpMatch(gs[i].re, subject)
    THEN IF gs[i].ignore THEN [title |-> "", ok |-> FALSE]
                         ELSE [title |-> gs[i].title, ok |-> TRUE]
    ELSE ClassifyFrom(gs, i + 1, subject)

\* Lines 230-240: the function handed to changelog.GroupByFunc.
Classifier(gs, subject) == ClassifyFrom(gs, 1, subject)

\* changelog.GroupByFunc, per change: a change the function accepts joins the
\* group of the returned title, a new group when there is none yet; a change
\* it rejects joins no group.
AddToGroup(grouped, res, change) ==
    IF ~res.ok THEN grouped
    ELSE IF \E k \in 1..Len(grouped) : grouped[k].title = res.title
    THEN LET k == CHOOSE x \in 1..Len(grouped) : grouped[x].title = res.title IN
         [grouped EXCEPT ![k].changes = Append(@, change)]
    ELSE Append(grouped, [title |-> res.title, changes |-> <<change>>])

\* Lines 218-230: CollectChanges has returned the changes and GroupByFunc is
\* called with the classifier over the configured rules.
StartChangelog ==
    /\ pcC = "grouping"
    /\ Groups \in RuleLists(MaxRules)
    /\ infos \in Histories
    /\ nextInfo = 1
    /\ returned = <<>>
    /\ infosGrouped = <<>>

\* The grouping when another component is observed.
IdleChangelog ==
    /\ pcC = "idle"
    /\ Groups = <<>>
    /\ infos = <<>>
    /\ nextInfo = 1
    /\ returned = <<>>
    /\ infosGrouped = <<>>

\* GroupByFunc classifies the next change and files it.
ClassifyChange ==
    /\ pcC = "grouping"
    /\ nextInfo <= Len(infos)
    /\ LET res == Classifier(Groups, infos[nextInfo].subject) IN
       /\ returned' = Append(returned, res)
       /\ infosGrouped' = AddToGroup(infosGrouped, res, infos[nextInfo])
    /\ nextInfo' = nextInfo + 1
    /\ UNCHANGED <<pcC, Groups, infos, othersC>>

\* Line 240: GroupByFunc returns the groups.
GroupByFuncReturn ==
    /\ pcC = "grouping"
    /\ nextInfo > Len(infos)
    /\ pcC' = "grouped"
    /\ UNCHANGED <<Groups, infos, nextInfo, returned, infosGrouped, othersC>>

NextChangelog ==
    \/ ClassifyChange
    \/ GroupByFuncReturn

----------------------------------------------------------------------------
(***************************************************************************)
(* Reading an archive back (what a tar+gzip reader sees in the sink).      *)
(***************************************************************************)

\* gunzip: the payload of a complete gzip stream, nothing otherwise.
Gunzip(z) ==
    IF z.magic = "gzip" /\ z.isize = Len(z.payload) THEN z.payload ELSE <<>>

\* Whether the first n tokens of s are body bytes.
IsBody(s, n) == Len(s) >= n /\ \A i \in 1..n : s[i].t = "dat"

\* The entries of a tar stream: each header is followed by as many body bytes
\* as its size field says; reading stops at the trailer or at a malformed token.
RECURSIVE ParseTar(_)
ParseTar(s) ==
    IF s = <<>> \/ Head(s).t # "hdr" THEN <<>>
    ELSE LET n    == Head(s).size
             rest == Tail(s)
         IN  IF ~IsBody(rest, n) THEN <<>>
             ELSE <<[name |-> Head(s).name,
                     body |-> [i \in 1..n |-> rest[i].b]]>>
                  \o ParseTar(SubSeq(rest, n + 1, Len(rest)))

\* A tar stream is complete when it ends with the trailer.
TarComplete(s) == s # <<>> /\ s[Len(s)].t = "end"

\* The entries a reader finds in the sink.
ReadArchive == ParseTar(Gunzip(outData))

\* The first Close that failed, "nil" when none did.
FirstFailure ==
    LET bad == {i \in 1..Len(closeLog) : closeLog[i].failed}
    IN  IF bad = {} THEN "nil"
        ELSE closeLog[CHOOSE i \in bad : \A j \in bad : i <= j].layer

\* All AddAndClose calls made so far returned nil.
AllAddsSucceeded == \A i \in 1..Len(addLog) : addLog[i].err = "nil"

----------------------------------------------------------------------------
(***************************************************************************)
(* Claims about targz.Archive (checked under SpecTargz).                   *)
(***************************************************************************)

\* C1 (as claimed): when Finalize has returned, all three layers (tar writer,
\* gzip writer, sink) have had Close called, whichever of them failed, and the
\* returned error is the first failure.
C1_AllClosesAttempted ==
    pcT = "finalized" =>
        /\ Closed = {"tw", "gw", "out"}
        /\ finErr = FirstFailure

\* C2: the Close calls of Finalize happen in the order tar writer, gzip
\* writer, sink: the log of Close calls is always a prefix of <<tw, gw, out>>.
C2_CloseOrder ==
    /\ Len(closeLog) <= 3
    /\ \A i \in 1..Len(closeLog) : closeLog[i].layer = <<"tw", "gw", "out">>[i]

\* C2 witness: a Finalize that closed all three layers.
C2_Witness == pcT = "finalized" /\ Len(closeLog) = 3

\* C3: every AddAndClose call that has returned, with or without an error,
\* closed its source file handle exactly once.
C3_SourceClosedOnce ==
    /\ Len(fileCloses) = Len(addLog)
    /\ \A i \in 1..Len(addLog) : fileCloses[i] = 1

\* C3 witness: one call returned nil and another failed in the body copy.
C3_Witness ==
    /\ Len(addLog) = 2
    /\ addLog[1].err = "nil"
    /\ addLog[2].err \in {"stat", "header", "writeHeader", "copy"}
    /\ fileCloses[2] = 1

\* C4: after N successful AddAndClose calls and a successful Finalize the
\* archive in the sink is complete and holds exactly N entries in call order,
\* entry i named targetPath_i with the full content of file_i as its body.
C4_ArchiveContents ==
    (pcT = "finalized" /\ finErr = "nil" /\ AllAddsSucceeded) =>
        /\ TarComplete(Gunzip(outData))
        /\ Len(ReadArchive) = Len(addLog)
        /\ \A i \in 1..Len(addLog) :
              /\ ReadArchive[i].name = addLog[i].targetPath
              /\ ReadArchive[i].body = addLog[i].file.content

\* C4 witness: two files added under names that differ from their own, one of
\* them with a non-empty body, and Finalize returned nil.
C4_Witness ==
    /\ pcT = "finalized" /\ finErr = "nil" /\ AllAddsSucceeded
    /\ Len(addLog) = 2
    /\ addLog[1].targetPath # addLog[2].targetPath
    /\ addLog[1].file.content # <<>>
    /\ Len(ReadArchive) = 2

----------------------------------------------------------------------------------------------------------------------------------------------------------------------------------------------------
(***************************************************************************)
(* Claims about Archivist.Exec (checked under SpecArchive).                *)
(***************************************************************************)

\* Where the layout puts the binary of an arch path:
\* <dist>/<project>/<tag>/<builds-root>/<arch path>/<binary>.
ExpectedBinary(path) ==
    <<"dist", "hugoreleaser", "v1.0.0", "builds">> \o path \o <<"hugo">>

C6_ExecWaitsForTasks ==
    pcA = "returned" =>
        /\ Running = {}
        /\ retA.kind # "init" => waitCalled
        /\ (\E i \in Submitted : task[i].err # NilErr) => retA # NilErr

\* C6 witness: ForEachArchiveArch returned an error after two tasks were
\* submitted, one of which failed, and Exec has returned.
C6_Witness ==
    /\ pcA = "returned"
    /\ feErr # NilErr
    /\ Cardinality(Submitted) >= 2
    /\ \E i \in Submitted : task[i].err # NilErr

\* C7 (as claimed): any two tasks of one run have different output
\* directories, and no archive a task has built is deleted again by the
\* RemoveAllMkdirAll of a sibling.
C7_OutDirsExclusive ==
    /\ \A i, j \in Submitted :
          i # j => OutDir(matched[i]) # OutDir(matched[j])
    /\ \A i \in produced : OutFilename(matched[i]) \in disk

\* C17 (as claimed): for a target whose binary is missing no task is submitted
\* to the Runner and the target's output directory is not removed and
\* recreated.
C17_BinaryCheckedBeforeScheduling ==
    \A i \in 1..Len(matched) :
        ExpectedBinary(matched[i].path) \notin binaries =>
            /\ i \notin Submitted
            /\ ~task[i].dirReset

----------------------------------------------------------------------------
(***************************************************************************)
(* Claims about Releaser.Exec (checked under SpecRelease).                 *)
(***************************************************************************)

\* The arch paths of the configured archives that a target's filter matches.
MatchedArchs(t) ==
    {i \in 1..Len(ConfigArchPaths) : Match(releases[t].paths, ConfigArchPaths[i].path)}

\* C8: a target that matches no archive file gets no client, no Release call
\* and no upload; Exec never goes past the collection of its files and returns
\* the "no files found" error naming the target.
C8_NoFilesNoRemoteAction ==
    /\ \A c \in remote : MatchedArchs(c.target) # {}
    /\ \A t \in 1..Len(releases) : nRelease[t] > 0 => MatchedArchs(t) # {}
    /\ pcR \in {"checksum", "client", "notes", "release", "submit", "wait"} =>
          MatchedArchs(cur) # {}
    /\ (pcR = "returned" /\ retR.kind = "no files found for release") =>
          /\ MatchedArchs(cur) = {}
          /\ retR.path = <<releases[cur].path>>
          /\ clientKind = "none"

\* C8 witness: the first target was released, the second matched no archive
\* file and Exec returned the error for it.
C8_Witness ==
    /\ pcR = "returned"
    /\ retR.kind = "no files found for release"
    /\ cur = 2
    /\ nRelease[1] = 1
    /\ MatchedArchs(2) = {}

\* C9: in a dry run no Release and no UploadAsset call reaches a real
\* provider client.
C9_DryRunNoRealCalls ==
    try => \A c \in remote : ~(c.client = "real" /\ c.op \in {"Release", "UploadAsset"})

\* C9 witness: a dry run over two release targets, each matching archive
\* files, has returned nil.
C9_Witness ==
    /\ try
    /\ pcR = "returned"
    /\ retR = NilErr
    /\ Len(releases) = 2
    /\ \A t \in 1..2 : MatchedArchs(t) # {}

\* C10 (as claimed): when a dry run has returned nil, every release target
\* has its checksum.txt with one line per matched archive file in its release
\* directory, its release-notes.md when notes are generated, and a Release call
\* made on the FakeClient.
C10_DryRunProducesLocalFiles ==
    (try /\ pcR = "returned" /\ retR = NilErr) =>
        \A t \in 1..Len(releases) :
            /\ [name  |-> ChecksumFilename(releases[t]),
                lines |-> CreateChecksumLines(CollectArchiveFilenames(releases[t]))]
                  \in relFiles
            /\ releases[t].generate =>
                  \E x \in relFiles : x.name = ReleaseNotesFilename(releases[t])
            /\ \E c \in remote :
                  c.target = t /\ c.client = "fake" /\ c.op = "Release"


\* C11: client.Release is called at most once per release target, target by
\* target in the configured order, and it has returned successfully before the
\* Runner is started or any upload task exists; when Release fails Exec returns
\* that error with no upload task created and no UploadAsset call made for the
\* target.
C11_ReleaseBeforeUploads ==
    /\ \A t \in 1..Len(releases) :
          /\ nRelease[t] <= 1
          /\ nRelease[t] = 1 => \A u \in 1..(t - 1) : nRelease[u] = 1
    /\ \A c \in remote :
          c.op \in {"Start", "UploadAsset"} =>
              /\ nRelease[c.target] = 1
              /\ \E d \in remote : d.op = "Release" /\ d.target = c.target
    /\ \A i \in 1..Len(upl) : upl[i].released /\ nRelease[cur] = 1
    /\ (pcR = "returned" /\ retR = IoErr("failed to create release")) =>
          /\ nRelease[cur] = 1
          /\ upl = <<>>
          /\ \A c \in remote :
                c.target = cur => c.op \notin {"Start", "UploadAsset"}

\* C11 witness: the first target was released and its files uploaded, the
\* Release call of the second target failed and Exec returned that error.
C11_Witness ==
    /\ pcR = "returned"
    /\ retR = IoErr("failed to create release")
    /\ cur = 2
    /\ nRelease[1] = 1 /\ nRelease[2] = 1
    /\ \E c \in remote : c.op = "UploadAsset" /\ c.target = 1


\* Exec has returned the error of the checksum stage: a digest failed, or
\* checksum.txt could not be created or written.
ChecksumStageFailed ==
    /\ pcR = "returned"
    /\ retR.kind \in {"checksum", "failed to create checksum file"}

\* C14 (as claimed): when the checksum stage has failed, the release directory
\* of the target holds no checksum.txt, complete or partial, no release was
\* created for the target and none of its assets was uploaded.
C14_ChecksumFailureLeavesNothing ==
    ChecksumStageFailed =>
        /\ \A x \in relFiles : x.name # ChecksumFilename(releases[cur])
        /\ nRelease[cur] = 0
        /\ \A c \in remote : c.target # cur

\* Exec has returned the error of a target configured with both generated
\* release notes and a release notes file.
NotesConfigError ==
    /\ pcR = "returned"
    /\ retR = IoErr("both GenerateReleaseNotes and ReleaseNotesFilename are set")

C16_RetryWithFreshHandles ==
    \A i \in 1..Len(upl) :
        LET u == upl[i] IN
        /\ Len(u.handles) = u.attempts
        /\ u.opens = u.attempts
        /\ \A a \in 1..Len(u.handles) :
              /\ u.handles[a].offset = 0
              /\ u.handles[a].file = archiveFilenames[i]
              /\ \A b \in 1..Len(u.handles) :
                    a # b => u.handles[a].id # u.handles[b].id
              /\ \A j \in 1..Len(upl) : \A b \in 1..Len(upl[j].handles) :
                    j # i => upl[j].handles[b].file # u.handles[a].file
        /\ (u.attempts > 0 /\ u.transient = u.attempts /\ u.transient < MaxAttempts) =>
              u.pc = "running" /\ u.err = NilErr
        /\ u.last = "ok" =>
              /\ u.pc = "done"
              /\ u.err = NilErr
              /\ u.transient = u.attempts - 1
              /\ u.transient < MaxAttempts

\* C16 witness: the upload of one file failed transiently, was tried again and
\* succeeded, while the task of another file has made an attempt too.
C16_Witness ==
    \E i \in 1..Len(upl) :
        /\ upl[i].last = "ok"
        /\ upl[i].transient >= 1
        /\ Len(upl[i].handles) = upl[i].transient + 1
        /\ \E j \in 1..Len(upl) : j # i /\ upl[j].attempts >= 1

\* The files of target t that are assets: the archive file of every arch path
\* its filter matches, and its checksum.txt.
AssetsOf(t) ==
    {OutFilename(ConfigArchPaths[i]) : i \in MatchedArchs(t)}
        \cup {ChecksumFilename(releases[t])}

\* C18: outside a dry run, the upload tasks of a target are one per matched
\* archive file plus one for its checksum.txt, each on a file of its own; every
\* UploadAsset call of a task is for the task's file, no asset is without a
\* call once the tasks have returned, and no other file, release-notes.md in
\* particular, is ever uploaded.
C18_OneUploadPerAsset ==
    /\ \A c \in remote :
          c.op = "UploadAsset" =>
              /\ ~try
              /\ c.file \in AssetsOf(c.target)
              /\ c.file # ReleaseNotesFilename(releases[c.target])
    /\ upl # <<>> =>
          LET files == {archiveFilenames[i] : i \in 1..Len(upl)} IN
          /\ Len(upl) = Cardinality(MatchedArchs(cur)) + 1
          /\ Len(archiveFilenames) = Len(upl)
          /\ files = AssetsOf(cur)
          /\ Cardinality(files) = Len(upl)
          /\ \A i \in 1..Len(upl) : \A a \in 1..Len(upl[i].handles) :
                upl[i].handles[a].file = archiveFilenames[i]
          /\ (\A i \in 1..Len(upl) : upl[i].pc = "done") =>
                \A f \in AssetsOf(cur) :
                    \E c \in remote :
                        c.op = "UploadAsset" /\ c.target = cur /\ c.file = f

\* C18 witness: the release notes of the target were generated, and the upload
\* tasks of its two archive files and of its checksum.txt have all returned nil.
C18_Witness ==
    /\ pcR = "wait"
    /\ releases[cur].generate
    /\ \E x \in relFiles : x.name = ReleaseNotesFilename(releases[cur])
    /\ Len(upl) = 3
    /\ \A i \in 1..Len(upl) : upl[i].pc = "done" /\ upl[i].err = NilErr

\* C19: the release targets are processed one after the other: the loop goes
\* on to the next target only when every upload task of the current one has
\* returned, all of them nil; a target behind the current one has had no
\* directory change, no client, no release and no upload, which holds in
\* particular when Exec has returned an error of the current target.
C19_TargetsSequential ==
    /\ \A t \in 1..Len(releases) :
          /\ iter[t].end \in {"pending", "ok"}
          /\ t < cur => iter[t].end = "ok"
          /\ t >= cur => iter[t].end = "pending"
          /\ t > cur =>
                /\ ~iter[t].dir
                /\ nRelease[t] = 0
                /\ \A c \in remote : c.target # t
    /\ \A c \in remote : c.target <= cur
    /\ (pcR = "returned" /\ retR # NilErr /\ Len(releases) > 0 /\ commitish # "") =>
          cur <= Len(releases)

\* C19 witness: the uploads of the first target have all returned nil, the
\* second target was released after that, one of its uploads failed and Exec
\* returned the error.
C19_Witness ==
    /\ pcR = "returned"
    /\ retR = IoErr("failed to upload files")
    /\ cur = 2
    /\ iter[1].end = "ok"
    /\ nRelease[1] = 1 /\ nRelease[2] = 1
    /\ Cardinality({c \in remote : c.op = "UploadAsset" /\ c.target = 1}) >= 2

\* C20: the context Workforce.Start derives for the uploads of a target is used
\* by that target's upload tasks only; NewClient, ResolveUsername and Release
\* of every target and the Start of its Runner are given the context Exec was
\* called with, which the end or the failure of an earlier target's uploads
\* never cancels: each of these calls is made on a live context.
C20_LoopUsesExecContext ==
    /\ ExecCtx \notin cancelled
    /\ \A x \in cancelled : x = PoolCtx(x.n) /\ x.n \in 1..Len(releases) /\ x.n <= cur
    /\ \A c \in remote :
          /\ c.op \in {"NewClient", "ResolveUsername", "Release", "Start"} =>
                c.ctx = ExecCtx /\ c.live
          /\ c.op = "UploadAsset" => c.ctx = PoolCtx(c.target)

\* C20 witness: the context of the first target's uploads was cancelled, by a
\* failed attempt or by Wait, and the second target has since got its client,
\* resolved author names, and been released.
C20_Witness ==
    /\ PoolCtx(1) \in cancelled
    /\ \A op \in {"NewClient", "ResolveUsername", "Release", "Start"} :
          \E c \in remote : c.target = 2 /\ c.op = op
    /\ \E i \in 1..Len(upl) : upl[i].last = "ok"

----------------------------------------------------------------------------
(***************************************************************************)
(* Claims about the grouping of changes.                                   *)
(***************************************************************************)

\* The changes the classifier has been applied to.
Classified == 1..(nextInfo - 1)

\* The titles of the groups that hold change k.
TitlesOf(k) ==
    {infosGrouped[g].title : g \in {x \in 1..Len(infosGrouped) :
                                      \E j \in 1..Len(infosGrouped[x].changes) :
                                         infosGrouped[x].changes[j] = infos[k]}}

\* The first rule whose expression matches change k (0 when none does).
FirstMatch(k) ==
    LET M == Matching(Groups, infos[k].subject) IN
    IF M = {} THEN 0 ELSE CHOOSE x \in M : \A y \in M : x <= y

\* C12: the classifier is first-match-wins: for a change whose subject matches
\* rule i and no rule before it, rule i not flagged ignore, it returns
\* (title of rule i, true) whatever the later rules are, and the change is in
\* the group of that title and in no other; for a change that matches no rule
\* it returns ("", false) and the change is in no group.
C12_FirstMatchWins ==
    \A k \in Classified :
        LET i == FirstMatch(k) IN
        /\ (i # 0 /\ ~Groups[i].ignore) =>
              /\ returned[k] = [title |-> Groups[i].title, ok |-> TRUE]
              /\ TitlesOf(k) = {Groups[i].title}
        /\ i = 0 =>
              /\ returned[k] = [title |-> "", ok |-> FALSE]
              /\ TitlesOf(k) = {}

\* C12 witness: the grouping is over; one change matched a rule that is not
\* flagged ignore and a later rule of another title or flagged ignore; another
\* change matched no rule.
C12_Witness ==
    /\ pcC = "grouped"
    /\ \E k \in Classified :
          LET i == FirstMatch(k) IN
          /\ i # 0 /\ ~Groups[i].ignore
          /\ \E j \in Matching(Groups, infos[k].subject) :
                j > i /\ (Groups[j].ignore \/ Groups[j].title # Groups[i].title)
    /\ \E k \in Classified : FirstMatch(k) = 0

\* C13 (as claimed): a change whose subject matches a rule flagged ignore is in
\* no group, wherever that rule stands in the list, also behind a matching
\* rule that is not flagged.
C13_IgnoreRuleAnywhere ==
    \A k \in Classified :
        (\E i \in Matching(Groups, infos[k].subject) : Groups[i].ignore) =>
            TitlesOf(k) = {}

\* C13 (amended): a change whose first matching rule is flagged ignore gets
\* ("", false) and is in no group, also when a later rule that is not flagged
\* matches it; a rule flagged ignore behind a matching rule that is not
\* flagged has no effect: the change is in the group of the earlier rule.
C13_IgnoreWhenFirstMatch ==
    \A k \in Classified :
        LET i == FirstMatch(k) IN
        /\ (i # 0 /\ Groups[i].ignore) =>
              /\ returned[k] = [title |-> "", ok |-> FALSE]
              /\ TitlesOf(k) = {}
        /\ (i # 0 /\ ~Groups[i].ignore) => TitlesOf(k) = {Groups[i].title}

\* C13 witness: the grouping is over; the first matching rule of one change is
\* flagged ignore and a later rule that is not flagged matches it too; for
\* another change a rule flagged ignore stands behind its first matching rule.
C13_Witness ==
    /\ pcC = "grouped"
    /\ \E k \in Classified :
          LET i == FirstMatch(k) IN
          /\ i # 0 /\ Groups[i].ignore
          /\ \E j \in Matching(Groups, infos[k].subject) : j > i /\ ~Groups[j].ignore
    /\ \E k \in Classified :
          LET i == FirstMatch(k) IN
          /\ i # 0 /\ ~Groups[i].ignore
          /\ \E j \in Matching(Groups, infos[k].subject) : j > i /\ Groups[j].ignore

----------------
(***************************************************************************)
(* Specifications.                                                         *)
(***************************************************************************)

vars == <<varsT, varsA, varsR, varsC>>

InitTargz == New /\ IdleArchive /\ IdleRelease /\ IdleChangelog

SpecTargz == InitTargz /\ [][NextTargz]_vars

InitArchive == IdleTargz /\ StartArchive /\ IdleRelease /\ IdleChangelog

SpecArchive == InitArchive /\ [][NextArchive]_vars

InitRelease == IdleTargz /\ IdleArchive /\ StartRelease /\ IdleChangelog

SpecRelease == InitRelease /\ [][NextRelease]_vars

InitChangelog == IdleTargz /\ IdleArchive /\ IdleRelease /\ StartChangelog

SpecChangelog == InitChangelog /\ [][NextChangelog]_vars

====
